---- MODULE Spec2Model ----
(***************************************************************************)
(* Model of music_comb (src/src/main.rs): the MIDI loader (load_midi), the *)
(* comb-segment derivation (MidiVisualizer::get_comb_segments), the        *)
(* spacing model (calculate_spacing) and the two tooth loops (generate_svg *)
(* and the painter loop of update).                                        *)
(*                                                                         *)
(* Numbers.  The program computes in f32.                                  *)
(*   Times (beats) are held exactly: an integer t stands for t / BeatUnit  *)
(*   beats, BeatUnit = 2^23, so one unit is f32::EPSILON.  Every f32 that  *)
(*   is a multiple of 2^-23 is such an integer: the times on the grid of   *)
(*   TimeStep (an eighth of a beat) and every f32 from 1.0 upwards.        *)
(*   RoundF32 rounds such an integer to 24 significant bits, as an f32     *)
(*   operation rounds its exact result.                                    *)
(*   Pixels, Hertz and ratios are held in fixed point: an integer v stands *)
(*   for v / Scale.  The tooth loop taken step by step (SpecTeeth) holds   *)
(*   its pixels exactly instead, in units of 1 / LoopUnit px.              *)
(*                                                                         *)
(* Specifications.                                                         *)
(*   Spec       the views of a loaded track: get_comb_segments,            *)
(*              generate_svg and the painter, as functions of the state.   *)
(*   SpecTeeth  one tooth loop, one pass through the loop body per step.   *)
(*   SpecLoad   load_midi on the events of a MIDI file, and on files that  *)
(*              cannot be read or parsed.                                  *)
(***************************************************************************)
EXTENDS Integers, Sequences, FiniteSets, TLC

\* ------------------------------------------------------------------ bounds
MaxNotes == 3
MaxDur == 3

\* ------------------------------------------------------- fixed-point f32
Scale == 1000

\* one beat, in units of time
BeatUnit == 8388608

\* the grid of the model's times: an eighth of a beat
TimeStep == BeatUnit \div 8

Abs(x) == IF x < 0 THEN -x ELSE x

\* f32 product and quotient of two fixed-point values
Mul(a, b) == (a * b) \div Scale
Div(a, b) == (a * Scale) \div b

\* f32 product of a time and px_per_beat, in pixels
BeatsToPx(t, px_per_beat) == ((t \div (BeatUnit \div 1024)) * px_per_beat) \div 1024

\* the power of two that is one unit in the last place of a 24-bit
\* significand holding v
RECURSIVE Ulp(_)
Ulp(v) == IF v < 16777216 THEN 1 ELSE 2 * Ulp(v \div 2)

\* v >= 0 rounded to 24 significant bits, ties to even: what an f32
\* operation with the exact result v returns
RoundF32(v) ==
    LET ulp == Ulp(v)
        low == v % ulp
        below == v - low
    IN  IF 2 * low < ulp THEN below
        ELSE IF 2 * low > ulp THEN below + ulp
        ELSE IF (below \div ulp) % 2 = 0 THEN below
        ELSE below + ulp

\* f32 sum
F32Add(a, b) == RoundF32(a + b)

\* <<q, r>> with rest * 2^bits = q * divisor + r and 0 <= r < divisor, for
\* 0 <= rest < divisor: a long division, eight binary places at a time where
\* the numbers are small enough for that
RECURSIVE ShiftDiv(_, _, _)
ShiftDiv(rest, divisor, bits) ==
    IF bits = 0 THEN <<0, rest>>
    ELSE LET step == IF divisor >= 8388608 THEN 1 ELSE IF bits >= 8 THEN 8 ELSE bits
             d == ShiftDiv(rest, divisor, bits - step)
             scaled == (2 ^ step) * d[2]
         IN  <<(2 ^ step) * d[1] + scaled \div divisor, scaled % divisor>>

\* the f32 quotient a / b in units of 2^-bits: a / b rounded to 24
\* significant bits, ties to even.  Exact when a / b is a multiple of 2^-bits
\* or at least 2^(23 - bits).
F32Quotient(a, b, bits) ==
    LET frac == ShiftDiv(a % b, b, bits)
        n == (a \div b) * (2 ^ bits) + frac[1]
        ulp == Ulp(n)
        low == n % ulp
        below == n - low
        twice == 2 * (low * b + frac[2])
        half == ulp * b
    IN  IF twice < half THEN below
        ELSE IF twice > half THEN below + ulp
        ELSE IF (below \div ulp) % 2 = 0 THEN below
        ELSE below + ulp

\* the binary places an f32 of integer part q has after the point
RECURSIVE FracBits(_)
FracBits(q) == IF q = 0 THEN 23 ELSE IF q >= 8388608 THEN 0 ELSE 1 + FracBits(2 * q)

\* f32::EPSILON is 2^-23: one unit of time, and (1.19e-7 px) strictly between
\* 0 and one unit of the fixed point.  So for a difference x of two times or
\* of two fixed-point values:  x < EPSILON  iff  x < 1,  and
\* x >= -EPSILON  iff  x > -1.
F32Epsilon == 1
LtEpsilon(x) == x < F32Epsilon
GeNegEpsilon(x) == x > -F32Epsilon

\* 2^(k/12) for k = 0..11, in fixed point, the mantissa rounded to a multiple
\* of 8 so that the three octaves below stay exact (2^(k/12 - 3) is an integer
\* number of units)
SemitoneRatio == <<1000, 1056, 1120, 1192, 1264, 1336, 1416, 1496, 1584, 1680, 1784, 1888>>

RECURSIVE TwoTo(_)
TwoTo(n) == IF n = 0 THEN 1 ELSE 2 * TwoTo(n - 1)

\* 2.0f32.powf(k / 12.0) for an integer number k of semitones
Powf12(k) ==
    LET oct == k \div 12
        semi == k % 12
    IN  IF oct >= 0 THEN SemitoneRatio[semi + 1] * TwoTo(oct)
        ELSE SemitoneRatio[semi + 1] \div TwoTo(-oct)

\* ------------------------------------------------------------ the inputs
Pitches == {60, 72}

\* the start times of the model's notes, in grid steps
StartSteps == {0, 1, 2}

MidiNotes ==
    [pitch : Pitches,
     start_time : {i * TimeStep : i \in StartSteps},
     duration : {i * TimeStep : i \in 0..MaxDur}]

\* load_midi pushes a note when it is closed, so in order of end tick, and
\* then sorts the notes by start_time with a stable sort: the notes of a track
\* are ordered by start_time and, at equal start_time, by duration
LoadedInOrder(earlier, later) ==
    \/ earlier.start_time < later.start_time
    \/ earlier.start_time = later.start_time /\ earlier.duration <= later.duration

RECURSIVE NoteListsOfLen(_)
NoteListsOfLen(n) ==
    IF n = 0 THEN {<<>>}
    ELSE {Append(p[1], p[2]) :
             p \in {q \in NoteListsOfLen(n - 1) \X MidiNotes :
                       q[1] = <<>> \/ LoadedInOrder(q[1][Len(q[1])], q[2])}}

NoteLists == UNION {NoteListsOfLen(n) : n \in 0..MaxNotes}

TrackData(ns) == [name |-> "Track 0", notes |-> ns]

\* Option<Vec<TrackData>>: None, Some(empty), Some(one track)
TracksNone == [is_some |-> FALSE, v |-> <<>>]
TracksSome(v) == [is_some |-> TRUE, v |-> v]

TrackInputs ==
    {TracksNone, TracksSome(<<>>)} \cup {TracksSome(<<TrackData(ns)>>) : ns \in NoteLists}

\* calibrations inside the slider ranges (ref_note 0..=127, ref_spacing
\* 0.5..=50.0 px, px_per_beat 10.0..=2000.0)
Calibrations ==
    {[ref_note |-> 60, ref_spacing |-> 1500, px_per_beat |-> 20000],
     [ref_note |-> 36, ref_spacing |-> 500, px_per_beat |-> 10000]}

\* the fields of MidiVisualizer, the value the last call returned, and
\*   midi_file   what the file dialog's MIDI file holds
\*   last_load   how the most recent load_midi call ended
\*   tooth_loop  the locals of a tooth loop in progress
VARIABLES tracks, selected_track, ref_note, ref_spacing, px_per_beat, returned,
          midi_file, last_load, tooth_loop

vars ==
    <<tracks, selected_track, ref_note, ref_spacing, px_per_beat, returned,
      midi_file, last_load, tooth_loop>>

\* the fields of MidiVisualizer the core reads
Self ==
    [tracks |-> tracks, selected_track |-> selected_track, ref_note |-> ref_note,
     ref_spacing |-> ref_spacing, px_per_beat |-> px_per_beat]

\* --------------------------------------------------------------- load_midi
\* start as f32 / ticks_per_beat, in units of time.  Exact for every
\* quotient that is a multiple of 2^-23 and for every quotient of at least 1.0.
F32Div(ticks, ticks_per_beat) == F32Quotient(ticks, ticks_per_beat, 23)

\* match smf.header.timing { Metrical(t) => t, _ => 480.0 }
TicksPerBeat(timing) == IF timing.kind = "Metrical" THEN timing.ticks ELSE 480

\* HashMap::insert / HashMap::remove on active_notes (key -> start tick)
MapInsertIfAbsent(map, key, value) ==
    [k \in DOMAIN map \cup {key} |-> IF k \in DOMAIN map THEN map[k] ELSE value]

MapInsert(map, key, value) ==
    [k \in DOMAIN map \cup {key} |-> IF k = key THEN value ELSE map[k]]

MapRemove(map, key) == [k \in DOMAIN map \ {key} |-> map[k]]

\* a NoteOn with velocity 0 closes a note like a NoteOff
IsNoteOn(event) == event.kind = "NoteOn" /\ event.vel > 0

IsNoteEnd(event) == event.kind = "NoteOff" \/ (event.kind = "NoteOn" /\ event.vel = 0)

\* the loop over the events of one track; current_ticks is a u32, which the
\* ticks of the model's files never fill
RECURSIVE LoadEvents(_, _, _, _, _, _)
LoadEvents(events, i, current_ticks, active_notes, notes, ticks_per_beat) ==
    IF i > Len(events) THEN notes
    ELSE LET event == events[i]
             ticks == current_ticks + event.delta
         IN  IF IsNoteOn(event)
             THEN LoadEvents(events, i + 1, ticks,
                             MapInsert(active_notes, event.key, ticks), notes,
                             ticks_per_beat)
             ELSE IF IsNoteEnd(event) /\ event.key \in DOMAIN active_notes
             THEN LET start == active_notes[event.key]
                      note == [pitch |-> event.key,
                               start_time |-> F32Div(start, ticks_per_beat),
                               duration |-> F32Div(ticks - start, ticks_per_beat)]
                  IN  LoadEvents(events, i + 1, ticks, MapRemove(active_notes, event.key),
                                 Append(notes, note), ticks_per_beat)
             ELSE LoadEvents(events, i + 1, ticks, active_notes, notes, ticks_per_beat)

\* notes.sort_by(start_time): a stable sort
RECURSIVE InsertNote(_, _)
InsertNote(s, note) ==
    IF s = <<>> THEN <<note>>
    ELSE IF note.start_time < s[Len(s)].start_time
         THEN Append(InsertNote(SubSeq(s, 1, Len(s) - 1), note), s[Len(s)])
         ELSE Append(s, note)

RECURSIVE SortNotes(_)
SortNotes(notes) ==
    IF notes = <<>> THEN <<>>
    ELSE InsertNote(SortNotes(SubSeq(notes, 1, Len(notes) - 1)), notes[Len(notes)])

\* the notes of one track of the file
TrackNotes(events, ticks_per_beat) ==
    SortNotes(LoadEvents(events, 1, 0, <<>>, <<>>, ticks_per_beat))

\* format!("Track {}", i)
TrackName(i) == IF i = 0 THEN "Track 0" ELSE "Track 1"

\* the loop over smf.tracks: a track without notes is left out
RECURSIVE ParseTracks(_, _, _, _)
ParseTracks(smf_tracks, i, parsed_tracks, ticks_per_beat) ==
    IF i >= Len(smf_tracks) THEN parsed_tracks
    ELSE LET notes == TrackNotes(smf_tracks[i + 1], ticks_per_beat)
         IN  ParseTracks(smf_tracks, i + 1,
                         IF notes # <<>>
                         THEN Append(parsed_tracks, [name |-> TrackName(i), notes |-> notes])
                         ELSE parsed_tracks,
                         ticks_per_beat)

ParsedTracks(smf) == ParseTracks(smf.tracks, 0, <<>>, TicksPerBeat(smf.timing))

\* ------------------------------------------------------ calculate_spacing
BaseFreq == 440 * Scale

Freq(n) == Mul(BaseFreq, Powf12(n - 69))

calculate_spacing(self, pitch) ==
    LET ref_freq == Freq(self.ref_note)
        note_freq == Freq(pitch)
    IN  Mul(self.ref_spacing, Div(ref_freq, note_freq))

\* ------------------------------------------------------ get_comb_segments
\* #[derive(PartialOrd, Ord)] enum EventType { On, Off }: declaration order
EventTypeOrd(kind) == IF kind = "On" THEN 0 ELSE 1

\* the comparator of events.sort_by: time, then kind
EventLess(a, b) ==
    \/ a.time < b.time
    \/ a.time = b.time /\ EventTypeOrd(a.kind) < EventTypeOrd(b.kind)

\* one On and one Off event per note, in note order
RECURSIVE NoteEvents(_)
NoteEvents(notes) ==
    IF notes = <<>> THEN <<>>
    ELSE LET note == Head(notes)
         IN  <<[time |-> note.start_time, kind |-> "On", pitch |-> note.pitch],
               [time |-> F32Add(note.start_time, note.duration), kind |-> "Off",
                pitch |-> note.pitch]>>
             \o NoteEvents(Tail(notes))

\* stable sort (slice::sort_by): an element moves left only past elements
\* that compare strictly greater
RECURSIVE InsertEvent(_, _)
InsertEvent(s, e) ==
    IF s = <<>> THEN <<e>>
    ELSE IF EventLess(e, s[Len(s)])
         THEN Append(InsertEvent(SubSeq(s, 1, Len(s) - 1), e), s[Len(s)])
         ELSE Append(s, e)

RECURSIVE SortEvents(_)
SortEvents(events) ==
    IF events = <<>> THEN <<>>
    ELSE InsertEvent(SortEvents(SubSeq(events, 1, Len(events) - 1)), events[Len(events)])

\* a sweep that lets the lowest active pitch govern
Lowest(active_pitches) == CHOOSE p \in active_pitches : \A q \in active_pitches : p <= q

\* active_pitches.iter().last(): the greatest member of the BTreeSet
Highest(active_pitches) == CHOOSE p \in active_pitches : \A q \in active_pitches : q <= p

\* a sweep that also pushes when the time has not advanced
SweepEmitsWithoutAdvance(current_time, last_time, active_pitches) ==
    current_time >= last_time /\ active_pitches # {}

\* the guard of the push in the sweep loop
SweepEmits(current_time, last_time, active_pitches) ==
    current_time > last_time /\ active_pitches # {}

\* a sweep whose Off events remove nothing
ApplyEventWithoutRemove(active_pitches, event) ==
    IF event.kind = "On" THEN active_pitches \cup {event.pitch}
    ELSE active_pitches

\* BTreeSet::insert / BTreeSet::remove
ApplyEvent(active_pitches, event) ==
    IF event.kind = "On" THEN active_pitches \cup {event.pitch}
    ELSE active_pitches \ {event.pitch}

RECURSIVE SweepFrom(_, _, _, _, _, _)
SweepFrom(self, events, i, segments, active_pitches, last_time) ==
    IF i > Len(events) THEN segments
    ELSE LET event == events[i]
             current_time == event.time
             pushed ==
                 IF SweepEmits(current_time, last_time, active_pitches)
                 THEN Append(segments,
                             [start_time |-> last_time, end_time |-> current_time,
                              spacing |-> calculate_spacing(self, Highest(active_pitches))])
                 ELSE segments
         IN  SweepFrom(self, events, i + 1, pushed, ApplyEvent(active_pitches, event),
                       current_time)

\* the provisional segments of the sweep, before the merge pass
SweepSegments(self, notes) ==
    LET events == SortEvents(NoteEvents(notes))
        last_time == IF events = <<>> THEN 0 ELSE events[1].time
    IN  SweepFrom(self, events, 1, <<>>, {}, last_time)

\* a merge pass that joins nothing
MergeableNever(current, next) == FALSE

\* a merge pass that ignores the spacing
MergeableAnySpacing(current, next) ==
    LtEpsilon(Abs(next.start_time - current.end_time))

\* the merge condition of the second pass
Mergeable(current, next) ==
    /\ LtEpsilon(Abs(next.spacing - current.spacing))
    /\ LtEpsilon(Abs(next.start_time - current.end_time))

RECURSIVE MergeFrom(_, _, _, _)
MergeFrom(segments, i, merged, current) ==
    IF i > Len(segments) THEN Append(merged, current)
    ELSE LET next == segments[i]
         IN  IF Mergeable(current, next)
             THEN MergeFrom(segments, i + 1, merged,
                            [current EXCEPT !.end_time = next.end_time])
             ELSE MergeFrom(segments, i + 1, Append(merged, current), next)

MergeSegments(segments) ==
    IF segments = <<>> THEN <<>>
    ELSE MergeFrom(segments, 2, <<>>, segments[1])

\* tracks.get(selected_track): selected_track is a 0-based index
HasSelectedTrack(self) ==
    self.tracks.is_some /\ self.selected_track + 1 <= Len(self.tracks.v)

SelectedNotes(self) ==
    IF HasSelectedTrack(self) THEN self.tracks.v[self.selected_track + 1].notes ELSE <<>>

get_comb_segments(self) ==
    IF ~self.tracks.is_some THEN <<>>
    ELSE IF ~HasSelectedTrack(self) THEN <<>>
    ELSE IF SelectedNotes(self) = <<>> THEN <<>>
    ELSE MergeSegments(SweepSegments(self, SelectedNotes(self)))

\* ---------------------------------------------------------- the tooth loop
MinSpacing == 100

\* floor in place of ceil
FirstToothIndexFloor(start_x, spacing) == start_x \div spacing

\* (start_x / spacing).ceil() as i64: the ceiling of the f32 quotient
FirstToothIndex(start_x, spacing) ==
    LET bits == FracBits(start_x \div spacing)
        quotient == F32Quotient(start_x, spacing, bits)
    IN  (quotient + 2 ^ bits - 1) \div (2 ^ bits)

\* a loop that restarts the phase at the start of every segment
FirstToothAtStart(start_x, spacing) == start_x

\* first_tooth_index as f32 * spacing
FirstTooth(start_x, spacing) ==
    RoundF32(RoundF32(FirstToothIndex(start_x, spacing)) * spacing)

\* a loop that also emits a tooth at end_x
ToothInRangeInclusive(current_x_abs, end_x) == current_x_abs <= end_x

\* the loop condition: while current_x_abs < end_x
ToothInRange(current_x_abs, end_x) == current_x_abs < end_x

RECURSIVE ToothLoop(_, _, _)
ToothLoop(current_x_abs, end_x, spacing) ==
    IF ToothInRange(current_x_abs, end_x)
    THEN <<current_x_abs>> \o ToothLoop(F32Add(current_x_abs, spacing), end_x, spacing)
    ELSE <<>>

\* the absolute positions the loop visits for one segment
SegmentTeeth(self, segment) ==
    LET start_x == BeatsToPx(segment.start_time, self.px_per_beat)
        end_x == BeatsToPx(segment.end_time, self.px_per_beat)
        spacing == segment.spacing
    IN  IF spacing > MinSpacing
        THEN ToothLoop(FirstTooth(start_x, spacing), end_x, spacing)
        ELSE <<>>

\* ------------------------------------------------------------ generate_svg
\* format!("{:.2}", x): x rounded to two decimals, in hundredths
Fmt2(x) == (x * 100 + Scale \div 2) \div Scale

\* the positions of one segment whose line is pushed to svg_content
SvgSegmentTeeth(self, segment, x_offset) ==
    LET Kept(current_x_abs) == GeNegEpsilon(current_x_abs - x_offset)
    IN  SelectSeq(SegmentTeeth(self, segment), Kept)

RECURSIVE Flatten(_)
Flatten(ss) == IF ss = <<>> THEN <<>> ELSE Head(ss) \o Flatten(Tail(ss))

RECURSIVE MaxEndX(_, _, _)
MaxEndX(self, segments, max_x) ==
    IF segments = <<>> THEN max_x
    ELSE LET end_x == BeatsToPx(Head(segments).end_time, self.px_per_beat)
         IN  MaxEndX(self, Tail(segments), IF end_x > max_x THEN end_x ELSE max_x)

EmptyWidth == 50 * Scale

generate_svg(self) ==
    LET segments == get_comb_segments(self)
    IN  IF segments = <<>>
        THEN [call |-> "generate_svg", segments |-> segments, teeth |-> <<>>,
              lines |-> <<>>, width |-> Fmt2(EmptyWidth)]
        ELSE LET x_offset == BeatsToPx(segments[1].start_time, self.px_per_beat)
                 teeth == [i \in 1..Len(segments) |->
                              SvgSegmentTeeth(self, segments[i], x_offset)]
                 Line(i) == Fmt2(Flatten(teeth)[i] - x_offset)
                 total_width == MaxEndX(self, segments, 0) - x_offset
             IN  [call |-> "generate_svg", segments |-> segments, teeth |-> teeth,
                  lines |-> [i \in 1..Len(Flatten(teeth)) |-> Line(i)],
                  width |-> Fmt2(total_width + EmptyWidth)]

\* ------------------------------------------- update (the painter's loop)
PaintTeeth(self) ==
    LET segments == IF HasSelectedTrack(self) THEN get_comb_segments(self) ELSE <<>>
    IN  [call |-> "update", segments |-> segments,
         teeth |-> [i \in 1..Len(segments) |-> SegmentTeeth(self, segments[i])],
         lines |-> <<>>, width |-> 0]

\* --------------------------------------------------------- specification
NothingReturned ==
    [call |-> "none", segments |-> <<>>, teeth |-> <<>>, lines |-> <<>>, width |-> 0]

\* no file chosen, no load_midi call made, no tooth loop running
NoMidiFile == [timing |-> [kind |-> "Metrical", ticks |-> 480], tracks |-> <<>>]
NoToothLoop ==
    [pc |-> "idle", x_offset |-> 0, start_x |-> 0, end_x |-> 0, spacing |-> 0,
     current_x_abs |-> 0, teeth |-> 0, lines |-> 0]

Init ==
    /\ tracks \in TrackInputs
    /\ selected_track = 0
    /\ \E c \in Calibrations :
          /\ ref_note = c.ref_note
          /\ ref_spacing = c.ref_spacing
          /\ px_per_beat = c.px_per_beat
    /\ returned = NothingReturned
    /\ midi_file = NoMidiFile
    /\ last_load = "none"
    /\ tooth_loop = NoToothLoop

GetCombSegments ==
    /\ returned' = [NothingReturned EXCEPT !.call = "get_comb_segments",
                                           !.segments = get_comb_segments(Self)]
    /\ UNCHANGED <<tracks, selected_track, ref_note, ref_spacing, px_per_beat>>
    /\ UNCHANGED <<midi_file, last_load, tooth_loop>>

\* an exporter that takes the tracks out of the visualizer
GenerateSvgTakingTracks ==
    /\ returned' = generate_svg(Self)
    /\ tracks' = TracksNone
    /\ UNCHANGED <<selected_track, ref_note, ref_spacing, px_per_beat>>
    /\ UNCHANGED <<midi_file, last_load, tooth_loop>>

GenerateSvg ==
    /\ returned' = generate_svg(Self)
    /\ UNCHANGED <<tracks, selected_track, ref_note, ref_spacing, px_per_beat>>
    /\ UNCHANGED <<midi_file, last_load, tooth_loop>>

Paint ==
    /\ returned' = PaintTeeth(Self)
    /\ UNCHANGED <<tracks, selected_track, ref_note, ref_spacing, px_per_beat>>
    /\ UNCHANGED <<midi_file, last_load, tooth_loop>>

Next == GetCombSegments \/ GenerateSvg \/ Paint

Spec == Init /\ [][Next]_vars

\* ------------------------------------------- the tooth loop, step by step
\* The loop of generate_svg and of the painter, one iteration per step, on
\* f32 pixels held exactly: an integer x stands for x / LoopUnit pixels,
\* LoopUnit = 2^6.  Every f32 from 2^17 px upwards is such an integer, and so
\* are the small multiples of 1/64 px.  teeth counts the passes through the
\* loop body, each of which the painter draws when it is in view; lines
\* counts those generate_svg writes.
LoopUnit == 64
MaxTeeth == 9

\* spacing > 0.1
LoopAboveThreshold(spacing) == 10 * spacing > LoopUnit

\* 0, 5/64, 1 and 858000, 4194304 (2^22), 4200000 px; 858000 and 4200000
\* are start_time 429.0 and 2100.0 beats at px_per_beat 2000.0
LoopStarts == {0, 5, 64, 54912000, 268435456, 268800000}

\* segment lengths of 0, 0.5 and 1 px
LoopLengths == {0, 32, 64}

\* 0.0625, 0.125, 0.25, 0.75 and 0.765625 px; calculate_spacing gives
\* 0.125 px for a pitch two octaves above ref_note at ref_spacing 0.5, and
\* ref_spacing itself for ref_note
LoopSpacings == {4, 8, 16, 48, 49}

\* x_offset: the start_x of the first segment, which is this segment or one
\* that starts at 0
LoopOrigins(start_x) == {0, start_x}

\* Default::default()
DefaultVisualizer ==
    /\ tracks = TracksNone
    /\ selected_track = 0
    /\ ref_note = 60
    /\ ref_spacing = 10 * Scale
    /\ px_per_beat = 200 * Scale

InitTeeth ==
    /\ DefaultVisualizer
    /\ returned = NothingReturned
    /\ midi_file = NoMidiFile
    /\ last_load = "none"
    /\ \E start_x \in LoopStarts : \E length \in LoopLengths : \E spacing \in LoopSpacings :
           \E x_offset \in LoopOrigins(start_x) :
               tooth_loop = [pc |-> "segment", x_offset |-> x_offset, start_x |-> start_x,
                             end_x |-> start_x + length, spacing |-> spacing,
                             current_x_abs |-> 0, teeth |-> 0, lines |-> 0]

\* if spacing > 0.1 { first_tooth_index ...; current_x_abs = ... }
LoopEnter ==
    /\ tooth_loop.pc = "segment"
    /\ tooth_loop' =
           IF LoopAboveThreshold(tooth_loop.spacing)
           THEN [tooth_loop EXCEPT
                    !.pc = "while",
                    !.current_x_abs = FirstTooth(tooth_loop.start_x, tooth_loop.spacing)]
           ELSE [tooth_loop EXCEPT !.pc = "done"]
    /\ UNCHANGED <<tracks, selected_track, ref_note, ref_spacing, px_per_beat>>
    /\ UNCHANGED <<returned, midi_file, last_load>>

\* one pass through the body of while current_x_abs < end_x: a tooth, a line
\* if current_x_relative >= -f32::EPSILON, then current_x_abs += spacing
LoopIterate ==
    /\ tooth_loop.pc = "while"
    /\ ToothInRange(tooth_loop.current_x_abs, tooth_loop.end_x)
    /\ tooth_loop.teeth < MaxTeeth
    /\ tooth_loop' =
           [tooth_loop EXCEPT
               !.teeth = tooth_loop.teeth + 1,
               !.lines = IF GeNegEpsilon(tooth_loop.current_x_abs - tooth_loop.x_offset)
                         THEN tooth_loop.lines + 1
                         ELSE tooth_loop.lines,
               !.current_x_abs = F32Add(tooth_loop.current_x_abs, tooth_loop.spacing)]
    /\ UNCHANGED <<tracks, selected_track, ref_note, ref_spacing, px_per_beat>>
    /\ UNCHANGED <<returned, midi_file, last_load>>

\* the loop condition fails
LoopExit ==
    /\ tooth_loop.pc = "while"
    /\ ~ToothInRange(tooth_loop.current_x_abs, tooth_loop.end_x)
    /\ tooth_loop' = [tooth_loop EXCEPT !.pc = "done"]
    /\ UNCHANGED <<tracks, selected_track, ref_note, ref_spacing, px_per_beat>>
    /\ UNCHANGED <<returned, midi_file, last_load>>

NextTeeth == LoopEnter \/ LoopIterate \/ LoopExit

SpecTeeth == InitTeeth /\ [][NextTeeth]_vars

\* ------------------------------------------------------- loading MIDI files
MaxEvents == 4

MidiEvent(delta, kind, key, vel) ==
    [delta |-> delta, kind |-> kind, key |-> key, vel |-> vel]

\* The events a track is made of: note-ons and note-offs of two keys, next to
\* one another (delta 0) or 480 or 490 ticks apart, a note-on of velocity 0
\* and a meta event.
TrackEvents ==
    {MidiEvent(0, "NoteOn", 60, 64), MidiEvent(480, "NoteOn", 60, 64),
     MidiEvent(0, "NoteOff", 60, 0), MidiEvent(480, "NoteOff", 60, 0),
     MidiEvent(490, "NoteOff", 60, 0), MidiEvent(480, "NoteOn", 60, 0),
     MidiEvent(0, "NoteOn", 72, 64), MidiEvent(480, "NoteOff", 72, 0),
     MidiEvent(480, "Meta", 0, 0)}

Metrical(ticks) == [kind |-> "Metrical", ticks |-> ticks]

Timecode == [kind |-> "Timecode", ticks |-> 0]

ConductorTrack == <<MidiEvent(0, "Meta", 0, 0)>>

\* the files made of a track: the track alone in metrical time, or behind a
\* conductor track without notes in timecode time
MidiFilesOf(events) ==
    {[timing |-> Metrical(480), tracks |-> <<events>>],
     [timing |-> Timecode, tracks |-> <<ConductorTrack, events>>]}

\* the paths the file dialog can hand over: the MIDI file, a file that
\* cannot be read and a file that is not MIDI
Paths == {"song.mid", "missing.mid", "notes.txt"}

\* fs::read(&path) is Ok
FsRead(path) == path # "missing.mid"

\* Smf::parse(&data) is Ok
SmfParse(path) == path = "song.mid"

\* self after load_midi(path), smf being what song.mid holds; file_path and
\* the scroll position are left out
load_midi_dropping_tracks(self, path, smf) ==
    IF ~FsRead(path) \/ ~SmfParse(path) THEN [self EXCEPT !.tracks = TracksNone]
    ELSE [self EXCEPT !.tracks = TracksSome(ParsedTracks(smf)), !.selected_track = 0]

load_midi(self, path, smf) ==
    IF ~FsRead(path) \/ ~SmfParse(path) THEN self
    ELSE [self EXCEPT !.tracks = TracksSome(ParsedTracks(smf)), !.selected_track = 0]

InitLoad ==
    /\ DefaultVisualizer
    /\ returned = NothingReturned
    /\ \E n \in 0..MaxEvents : \E events \in [1..n -> TrackEvents] :
           midi_file \in MidiFilesOf(events)
    /\ last_load = "none"
    /\ tooth_loop = NoToothLoop

\* the load button with the file the dialog returned
LoadMidi(path) ==
    /\ tracks' = load_midi(Self, path, midi_file).tracks
    /\ selected_track' = load_midi(Self, path, midi_file).selected_track
    /\ last_load' = IF FsRead(path) /\ SmfParse(path) THEN "ok" ELSE "failed"
    /\ UNCHANGED <<ref_note, ref_spacing, px_per_beat, returned, midi_file, tooth_loop>>

NextLoad == \E path \in Paths : LoadMidi(path)

SpecLoad == InitLoad /\ [][NextLoad]_vars

\* ---------------------------------------------------------- vocabulary
Notes == SelectedNotes(Self)

NoteEnd(note) == note.start_time + note.duration

Sounding(note, t) == note.start_time <= t /\ t < NoteEnd(note)

SoundingPitches(t) == {Notes[i].pitch : i \in {j \in 1..Len(Notes) : Sounding(Notes[j], t)}}

\* every event time lies on the grid, so a segment or a note covers the
\* whole cell [t, t + TimeStep) of a grid instant t or none of it
Instants == {i * TimeStep : i \in 0..(Cardinality(StartSteps) + MaxDur)}

InSegment(segment, t) == segment.start_time <= t /\ t < segment.end_time

SegmentsReturned == returned.call = "get_comb_segments"

TeethReturned == returned.call \in {"generate_svg", "update"}

SegmentOf(start_time, end_time, pitch) ==
    [start_time |-> start_time, end_time |-> end_time,
     spacing |-> calculate_spacing(Self, pitch)]

EqualPitchPair ==
    /\ Len(Notes) = 2
    /\ Notes[1].pitch = Notes[2].pitch

\* what load_midi yields when the f32 quotients are exact: a key is closed
\* before it is opened again, so notes of equal pitch do not overlap
NotesAsLoaded ==
    \A i \in 1..Len(Notes) : \A j \in 1..Len(Notes) :
        (i < j /\ Notes[i].pitch = Notes[j].pitch)
            => NoteEnd(Notes[i]) <= Notes[j].start_time

\* ---------------------------------------------------------------- C1
\* C1: two back-to-back notes of equal pitch and positive durations (the
\* second starts where the first ends) give exactly one segment, from the
\* start of the first to the end of the second, with the spacing of the pitch.
C1_BackToBackMerged ==
    (/\ SegmentsReturned
     /\ EqualPitchPair
     /\ Notes[1].duration > 0
     /\ Notes[2].duration > 0
     /\ Notes[2].start_time = NoteEnd(Notes[1]))
    => returned.segments =
           <<SegmentOf(Notes[1].start_time, NoteEnd(Notes[2]), Notes[1].pitch)>>

\* ---------------------------------------------------------------- C2
\* C2: the segments returned cover exactly the instants at which some note
\* of the selected track sounds, and they are ordered by time.  Stated for
\* the note lists load_midi yields, which is where it is refuted.
C2_CoversUnionOfNotes ==
    (SegmentsReturned /\ NotesAsLoaded) =>
        /\ \A t \in Instants :
               (\E i \in 1..Len(returned.segments) : InSegment(returned.segments[i], t))
               <=> (SoundingPitches(t) # {})
        /\ \A i \in 1..(Len(returned.segments) - 1) :
               returned.segments[i].end_time <= returned.segments[i + 1].start_time

\* ---------------------------------------------------------------- C3
\* C3: two notes of equal pitch with overlapping intervals (both non-empty,
\* the second starting strictly before the first ends) give exactly one
\* segment from the earlier start to the later end, with the spacing of the
\* pitch.
LaterEnd ==
    IF NoteEnd(Notes[1]) >= NoteEnd(Notes[2]) THEN NoteEnd(Notes[1]) ELSE NoteEnd(Notes[2])

C3_OverlapEqualPitchMerged ==
    (/\ SegmentsReturned
     /\ EqualPitchPair
     /\ Notes[1].duration > 0
     /\ Notes[2].duration > 0
     /\ Notes[2].start_time < NoteEnd(Notes[1]))
    => returned.segments = <<SegmentOf(Notes[1].start_time, LaterEnd, Notes[1].pitch)>>

\* ---------------------------------------------------------------- C4
\* C4: at every instant a returned segment covers, the segment's spacing is
\* the spacing of the highest pitch among the notes sounding at that instant.
\* Stated for the note lists load_midi yields, which is where it is refuted.
C4_HighestPitchGoverns ==
    (SegmentsReturned /\ NotesAsLoaded) =>
        \A i \in 1..Len(returned.segments) : \A t \in Instants :
            InSegment(returned.segments[i], t) =>
                /\ SoundingPitches(t) # {}
                /\ returned.segments[i].spacing =
                       calculate_spacing(Self, Highest(SoundingPitches(t)))

\* ---------------------------------------------------------------- C5
\* C5: a higher note lying strictly inside a lower note gives exactly three
\* segments: lower pitch before, higher pitch during, lower pitch after.
NestedPair ==
    /\ Len(Notes) = 2
    /\ Notes[2].pitch > Notes[1].pitch
    /\ Notes[1].start_time < Notes[2].start_time
    /\ Notes[2].start_time < NoteEnd(Notes[2])
    /\ NoteEnd(Notes[2]) < NoteEnd(Notes[1])

C5_NestedHigherNote ==
    (SegmentsReturned /\ NestedPair)
    => returned.segments =
           <<SegmentOf(Notes[1].start_time, Notes[2].start_time, Notes[1].pitch),
             SegmentOf(Notes[2].start_time, NoteEnd(Notes[2]), Notes[2].pitch),
             SegmentOf(NoteEnd(Notes[2]), NoteEnd(Notes[1]), Notes[1].pitch)>>

C5_Witness == SegmentsReturned /\ NestedPair /\ Len(returned.segments) = 3

\* ---------------------------------------------------------------- C6
\* C6: for notes of positive duration with pairwise disjoint half-open
\* intervals there is exactly one segment per note, with the note's start,
\* end and spacing; no note gives no segment, one note gives one segment.
AllPositive == \A i \in 1..Len(Notes) : Notes[i].duration > 0

NonOverlapping ==
    \A i \in 1..Len(Notes) : \A j \in 1..Len(Notes) :
        i < j => NoteEnd(Notes[i]) <= Notes[j].start_time

OneSegmentPerNote ==
    /\ Len(returned.segments) = Len(Notes)
    /\ \A i \in 1..Len(Notes) :
           returned.segments[i] =
               SegmentOf(Notes[i].start_time, NoteEnd(Notes[i]), Notes[i].pitch)

C6_OneSegmentPerNote ==
    (SegmentsReturned /\ AllPositive /\ NonOverlapping) => OneSegmentPerNote

\* C6 as amended: the same, for note lists in which no note starts (within
\* f32::EPSILON) where another note of the same pitch ends
NoBackToBackEqualPitch ==
    \A i \in 1..Len(Notes) : \A j \in 1..Len(Notes) :
        (i < j /\ Notes[i].pitch = Notes[j].pitch)
            => ~LtEpsilon(Abs(Notes[j].start_time - NoteEnd(Notes[i])))

C6_OneSegmentPerSeparateNote ==
    (SegmentsReturned /\ AllPositive /\ NonOverlapping /\ NoBackToBackEqualPitch)
        => OneSegmentPerNote

C6_Witness ==
    /\ SegmentsReturned /\ AllPositive /\ NonOverlapping /\ NoBackToBackEqualPitch
    /\ Len(Notes) = 3
    /\ Notes[2].start_time = NoteEnd(Notes[1])
    /\ Notes[3].pitch = Notes[1].pitch
    /\ Len(returned.segments) = 3

\* ---------------------------------------------------------------- C7
\* C7: every returned segment has start_time < end_time, and each segment
\* ends no later than the next one starts.
C7_SegmentsOrderedDisjoint ==
    SegmentsReturned =>
        /\ \A i \in 1..Len(returned.segments) :
               returned.segments[i].start_time < returned.segments[i].end_time
        /\ \A i \in 1..(Len(returned.segments) - 1) :
               returned.segments[i].end_time <= returned.segments[i + 1].start_time

C7_Witness ==
    /\ SegmentsReturned
    /\ Len(returned.segments) >= 2
    /\ returned.segments[1].end_time = returned.segments[2].start_time
    /\ \E i \in 1..Len(Notes) : Notes[i].duration = 0

\* ---------------------------------------------------------------- C8
\* C8: for a segment with spacing above the threshold, the teeth emitted by
\* generate_svg and by the painter's loop are exactly the multiples of the
\* spacing in [start_x, end_x), in increasing order.
StrictlyIncreasing(s) == \A i \in 1..(Len(s) - 1) : s[i] < s[i + 1]

StartX(segment) == BeatsToPx(segment.start_time, px_per_beat)

EndX(segment) == BeatsToPx(segment.end_time, px_per_beat)

GridPositions(segment) ==
    {x \in {k * segment.spacing : k \in 0..(EndX(segment) \div segment.spacing)} :
        StartX(segment) <= x /\ x < EndX(segment)}

Provisional == SweepSegments(Self, Notes)

ProvisionalTeeth == [i \in 1..Len(Provisional) |-> SegmentTeeth(Self, Provisional[i])]

C11_ToothLoopEnds ==
    /\ [](~LoopAboveThreshold(tooth_loop.spacing) =>
              (tooth_loop.teeth = 0 /\ tooth_loop.pc # "while"))
    /\ [][(tooth_loop.pc = "while" /\ tooth_loop'.pc = "while")
              => tooth_loop'.current_x_abs > tooth_loop.current_x_abs]_vars

\* ---------------------------------------------------------------- C12
\* C12: get_comb_segments and generate_svg leave the tracks (the notes), the
\* selected track and the calibration as they were, and a computation that
\* follows the same computation with nothing in between returns the same
\* segments and teeth.
C12_ViewsArePure ==
    [][/\ returned'.call \in {"get_comb_segments", "generate_svg"} =>
              /\ tracks' = tracks
              /\ selected_track' = selected_track
              /\ ref_note' = ref_note
              /\ ref_spacing' = ref_spacing
              /\ px_per_beat' = px_per_beat
       /\ returned'.call = returned.call => returned' = returned]_vars

C12_Witness ==
    /\ returned.call = "generate_svg"
    /\ Len(Notes) >= 2
    /\ Len(returned.segments) >= 2
    /\ Len(returned.lines) >= 2

\* ---------------------------------------------------------------- C14
\* C14: the events of the sweep are in ascending order of time, and among
\* events of one time every Off comes before any On.  Stated for notes of
\* positive duration, where an Off and an On of one time belong to two notes.
SweepEvents == SortEvents(NoteEvents(Notes))

C14_OffBeforeOnAtEqualTime ==
    (SegmentsReturned /\ AllPositive) =>
        \A i \in 1..Len(SweepEvents) : \A j \in 1..Len(SweepEvents) :
            i < j =>
                /\ SweepEvents[i].time <= SweepEvents[j].time
                /\ SweepEvents[i].time = SweepEvents[j].time
                       => ~(SweepEvents[i].kind = "On" /\ SweepEvents[j].kind = "Off")

\* ---------------------------------------------------------------- C15
\* C15: in the sweep, once all events of a time t are applied, the active
\* pitches are exactly the pitches of the notes with
\* start_time <= t < start_time + duration.  Stated for notes of positive
\* duration in the note lists load_midi yields when its quotients are exact,
\* which is where it is refuted.
RECURSIVE ApplyEvents(_, _)
ApplyEvents(active_pitches, events) ==
    IF events = <<>> THEN active_pitches
    ELSE ApplyEvents(ApplyEvent(active_pitches, Head(events)), Tail(events))

\* active_pitches after the last event of time t
ActiveAfter(t) ==
    LET UpTo(event) == event.time <= t
    IN  ApplyEvents({}, SelectSeq(SweepEvents, UpTo))

C15_ActiveSetIsSoundingSet ==
    (SegmentsReturned /\ AllPositive /\ NotesAsLoaded) =>
        \A i \in 1..Len(SweepEvents) :
            ActiveAfter(SweepEvents[i].time) = SoundingPitches(SweepEvents[i].time)

\* ---------------------------------------------------------------- C16
\* C16: no two consecutive returned segments are both contiguous and of equal
\* spacing (each within f32::EPSILON), and the merge pass changes neither the
\* instants covered nor the spacing at a covered instant: at every instant the
\* returned segments and the provisional segments of the sweep give the same
\* spacings.
Contiguous(earlier, later) == Abs(later.start_time - earlier.end_time) < F32Epsilon

EqualSpacing(earlier, later) == Abs(later.spacing - earlier.spacing) < F32Epsilon

SpacingsAt(segments, t) ==
    {segments[i].spacing : i \in {j \in 1..Len(segments) : InSegment(segments[j], t)}}

C16_MergedSegmentsMaximal ==
    SegmentsReturned =>
        /\ \A i \in 1..(Len(returned.segments) - 1) :
               ~(/\ Contiguous(returned.segments[i], returned.segments[i + 1])
                 /\ EqualSpacing(returned.segments[i], returned.segments[i + 1]))
        /\ LET provisional == Provisional
           IN  \A t \in Instants :
                   SpacingsAt(returned.segments, t) = SpacingsAt(provisional, t)

C16_Witness ==
    /\ SegmentsReturned
    /\ Len(returned.segments) >= 2
    /\ Len(returned.segments) < Len(Provisional)
    /\ \E i \in 1..(Len(returned.segments) - 1) :
           returned.segments[i].end_time = returned.segments[i + 1].start_time

C18_NoToothDropped == tooth_loop.lines = tooth_loop.teeth

\* C13 (as stated): whenever the most recent load_midi call failed, the core
\* sees no notes, so get_comb_segments returns the empty sequence.
C13_FailedLoadSeesNoNotes ==
    last_load = "failed" => get_comb_segments(Self) = <<>>

\* C13 (amended): a failed load_midi call changes nothing, so the core keeps
\* the notes of the last load that succeeded; while no load has succeeded the
\* tracks are absent and get_comb_segments returns the empty sequence.
C13_FailedLoadChangesNothing ==
    /\ [](~tracks.is_some => get_comb_segments(Self) = <<>>)
    /\ [][last_load' = "failed" =>
              /\ tracks' = tracks
              /\ selected_track' = selected_track
              /\ ref_note' = ref_note
              /\ ref_spacing' = ref_spacing
              /\ px_per_beat' = px_per_beat]_vars

C13_Witness ==
    /\ last_load = "failed"
    /\ tracks.is_some
    /\ get_comb_segments(Self) # <<>>

\* the events of the track that holds the notes, and its ticks per beat
FileEvents == midi_file.tracks[Len(midi_file.tracks)]

FileTicksPerBeat == TicksPerBeat(midi_file.timing)

\* the tick of the i-th event: the sum of the deltas up to it
RECURSIVE TickAt(_, _)
TickAt(events, i) == IF i = 0 THEN 0 ELSE TickAt(events, i - 1) + events[i].delta

\* <<i, j>>: event j closes the note that event i opened, i being the most
\* recent velocity>0 NoteOn of the key and j the next closing event after it
NotePairs(events) ==
    {p \in (1..Len(events)) \X (1..Len(events)) :
        /\ p[1] < p[2]
        /\ IsNoteOn(events[p[1]])
        /\ IsNoteEnd(events[p[2]])
        /\ events[p[1]].key = events[p[2]].key
        /\ \A m \in (p[1] + 1)..(p[2] - 1) :
               events[m].key = events[p[1]].key
                   => ~(IsNoteOn(events[m]) \/ IsNoteEnd(events[m]))}

PairNote(events, p) ==
    [pitch |-> events[p[1]].key,
     start_time |-> F32Div(TickAt(events, p[1]), FileTicksPerBeat),
     duration |-> F32Div(TickAt(events, p[2]) - TickAt(events, p[1]), FileTicksPerBeat)]

\* the loaded notes are the notes of the pairs, each as often as it arises
NotesArePairs ==
    LET pairs == NotePairs(FileEvents)
        values == {Notes[i] : i \in 1..Len(Notes)} \cup {PairNote(FileEvents, p) : p \in pairs}
    IN  /\ Len(Notes) = Cardinality(pairs)
        /\ \A note \in values :
               Cardinality({i \in 1..Len(Notes) : Notes[i] = note})
                   = Cardinality({p \in pairs : PairNote(FileEvents, p) = note})
        /\ \A i \in 1..Len(Notes) : Notes[i].duration >= 0

\* [start_time, start_time + duration) of the two notes meet
IntervalsOverlap(a, b) ==
    /\ a.start_time < NoteEnd(b)
    /\ b.start_time < NoteEnd(a)
    /\ a.start_time < NoteEnd(a)
    /\ b.start_time < NoteEnd(b)

====
